---- MODULE Spec2Model ----
(***************************************************************************)
(* Explicit interface implementation: the metaclass InterfaceMeta builds,  *)
(* for every type, the set of abstract members still to be implemented and *)
(* the registry  interface -> (abstract member -> implementation);         *)
(* as_interface_type returns a view that resolves abstract members through *)
(* that registry.  Modelled from src/src/explicit_implementation.          *)
(***************************************************************************)
EXTENDS Integers, Sequences, FiniteSets, TLC

VARIABLES types, last

vars == <<types, last>>

(* ------------------------------ bounds -------------------------------- *)
\* number of types in the table, the root Interface included
MaxTypes == 5
\* length of the list of bases of a new type
MaxBases == 2
\* number of methods marked implements(...) in one body
MaxMarkers == 3

\* member names a body may declare (abstract) or define (ordinary)
Names == {"m", "n"}
\* names of the methods marked implements(...), by position in the body
ImplNames == <<"impl1", "impl2", "impl3", "impl4">>

(* --------------------------- basic values ----------------------------- *)
\* the root type, created by the class statement at the end of interface.py
Interface == 1
\* a type that is not an interface (the builtin object)
object == 0

EmptyMap == <<>>

Range(s) == {s[i] : i \in DOMAIN s}

Min(S) == CHOOSE x \in S : \A y \in S : x <= y

\* a function object of a class body.  kind: "abstract" (abstractmethod),
\* "plain" (ordinary method) or "impl" (marked by implements); for: the
\* marker __explicit_implementation_for__, as <<owner, name>> of the target
Fn(kind, owner, name, for) == [kind |-> kind, owner |-> owner, name |-> name, for |-> for]

AbstractFn(owner, name) == Fn("abstract", owner, name, <<>>)
PlainFn(owner, name) == Fn("plain", owner, name, <<>>)

\* decorators.implements: the implementation carries its target
implements(target, owner, name) == Fn("impl", owner, name, <<target.owner, target.name>>)

\* the class statement `class Interface(metaclass=InterfaceMeta)`: no bases,
\* nothing abstract, one ordinary method
InterfaceType ==
  [bases |-> <<>>, mro |-> <<Interface>>,
   ns |-> ("as_interface" :> PlainFn(Interface, "as_interface")),
   specs |-> {}, impls |-> EmptyMap, abstractmethods |-> {}]

(* ------------------------- host: type creation ------------------------ *)
InTail(x, l) == \E i \in 2..Len(l) : l[i] = x

\* C3 linearisation; a 0 in the result marks an inconsistent hierarchy
RECURSIVE C3Merge(_)
C3Merge(lists) ==
  LET ne == SelectSeq(lists, LAMBDA l : l # <<>>)
  IN IF ne = <<>> THEN <<>>
     ELSE LET cands == {i \in 1..Len(ne) : \A j \in 1..Len(ne) : ~InTail(Head(ne[i]), ne[j])}
          IN IF cands = {} THEN <<0>>
             ELSE LET h == Head(ne[Min(cands)])
                      rest == [k \in 1..Len(ne) |-> IF Head(ne[k]) = h THEN Tail(ne[k]) ELSE ne[k]]
                  IN <<h>> \o C3Merge(rest)

\* the mro type.__new__ computes for a new type; <<>> when it raises
\* (duplicate base class, or no consistent method resolution order)
MroOf(T, self, bases) ==
  IF \E i, j \in 1..Len(bases) : i # j /\ bases[i] = bases[j] THEN <<>>
  ELSE LET m == C3Merge([i \in 1..Len(bases) |-> T[bases[i]].mro] \o <<bases>>)
       IN IF 0 \in Range(m) THEN <<>> ELSE <<self>> \o m

issubclass(T, t, x) == t # object /\ x \in Range(T[t].mro)

IsInterface(T, t) == t # object /\ issubclass(T, t, Interface)

(* ---------------------- InterfaceMeta.__new__ ------------------------- *)
\* lines 14-29: the abstract members the new type has to account for: what
\* its interface bases still leave open, plus what its own body declares
InheritedSpecifications(T, bases, defined) ==
  UNION {T[bases[i]].specs : i \in {j \in 1..Len(bases) : IsInterface(T, bases[j])}} \cup defined

\* lines 56 and 80: an item assignment into the mapping the working registry
\* holds under `interface`.  acc.ref[interface] is the type whose registry
\* owns that dict object: the type being built (Len(acc.tab) + 1) for a dict
\* created by this call, an existing type for a dict shared with it, and then
\* the assignment is seen in the registry of that type as well
Write(acc, interface, specification, implementation) ==
  [acc EXCEPT
     !.reg[interface] = (specification :> implementation) @@ @,
     !.tab = IF acc.ref[interface] > Len(acc.tab) THEN @
             ELSE [@ EXCEPT ![acc.ref[interface]].impls[interface] = (specification :> implementation) @@ @]]

\* lines 43, 47 and 78: a new empty dict is stored under `interface`
FreshEntry(acc, interface) ==
  [acc EXCEPT !.reg = (interface :> EmptyMap) @@ @,
              !.ref = (interface :> Len(acc.tab) + 1) @@ @]

\* lines 49-56: one (specification, implementation) pair of a base's registry
\* is copied under `interface`; acc = [reg, mo, ref, tab]
\* (inherited_implementations, multiple_overrides, the owner of each dict of
\* inherited_implementations, the table of the existing types)
MergePair(acc, interface, specification, implementation) ==
  IF implementation \in Range(acc.mo) THEN acc
  ELSE [Write(acc, interface, specification, implementation) EXCEPT
          !.mo = IF implementation \in DOMAIN acc.reg[interface]
                 THEN Append(acc.mo, implementation) ELSE acc.mo]

\* lines 45-56 for the pairs of one interface of the base's registry
RECURSIVE MergePairs(_, _, _, _)
MergePairs(acc, interface, implementations, todo) ==
  IF todo = {} THEN acc
  ELSE LET specification == CHOOSE s \in todo : TRUE
       IN MergePairs(MergePair(acc, interface, specification, implementations[specification]),
                     interface, implementations, todo \ {specification})

\* a merge that, for an interface it has no entry for yet, stores the dict of
\* the base itself instead of a new one (no copy is made)
RECURSIVE MergeInterfacesShared(_, _, _, _)
MergeInterfacesShared(T, acc, base, todo) ==
  IF todo = {} THEN acc
  ELSE LET interface == CHOOSE x \in todo : TRUE
           explicit_implementations == T[base].impls
           acc1 == IF interface \in DOMAIN acc.reg THEN acc
                   ELSE [acc EXCEPT !.reg = (interface :> acc.tab[base].impls[interface]) @@ @,
                                    !.ref = (interface :> base) @@ @]
           acc2 == MergePairs(acc1, interface, explicit_implementations[interface],
                              DOMAIN explicit_implementations[interface])
       IN MergeInterfacesShared(T, acc2, base, todo \ {interface})

\* lines 38-56: the registry of one base (explicit_implementations, line 38)
\* is copied, interface by interface, into dicts of the new type's own
RECURSIVE MergeInterfaces(_, _, _, _)
MergeInterfaces(T, acc, base, todo) ==
  IF todo = {} THEN acc
  ELSE LET interface == CHOOSE x \in todo : TRUE
           explicit_implementations == T[base].impls
           acc1 == IF interface \in DOMAIN acc.reg THEN acc
                   ELSE FreshEntry(acc, interface)
           acc2 == MergePairs(acc1, interface, explicit_implementations[interface],
                              DOMAIN explicit_implementations[interface])
       IN MergeInterfaces(T, acc2, base, todo \ {interface})

\* lines 42-43: a base with open abstract members gets an empty entry of its own
PreCreate(T, acc, base) ==
  IF T[base].specs # {} THEN FreshEntry(acc, base) ELSE acc

\* lines 33-56 for one base
MergeBase(T, acc, base) ==
  IF ~IsInterface(T, base) THEN acc
  ELSE MergeInterfaces(T, PreCreate(T, acc, base), base, DOMAIN T[base].impls)

\* lines 31-56: the registries of the bases, merged in the order of the bases
RECURSIVE MergeBases(_, _, _, _)
MergeBases(T, acc, bases, i) ==
  IF i > Len(bases) THEN acc
  ELSE MergeBases(T, MergeBase(T, acc, bases[i]), bases, i + 1)

\* whether a function object carries __declaring_interface__ (line 95 sets it
\* on the abstract methods of a body once the type of that body exists)
HasDeclaringInterface(T, f) == f.kind = "abstract" /\ f.owner \in 1..Len(T)

\* the three errors __new__ raises on its own, and those of the host
UnknownTarget(attr_name, target_name) ==
  [type |-> "TypeError", msg |-> "is marked as an explicit implementation for method, which is not an abstract method of any base interface",
   names |-> {attr_name, target_name}]
ConflictingOverride(overrides) ==
  [type |-> "TypeError", msg |-> "are marked as explicit implementations for methods of multiple base interfaces",
   names |-> {f.name : f \in Range(overrides)}]
IncompleteConcrete(specs) ==
  [type |-> "TypeError", msg |-> "does not provide explicit implementations for all abstract methods",
   names |-> {f.name : f \in specs}]
NoDeclaringInterface ==
  [type |-> "AttributeError", msg |-> "'function' object has no attribute '__declaring_interface__'",
   names |-> {}]
MroError ==
  [type |-> "TypeError", msg |-> "duplicate base class or inconsistent method resolution order",
   names |-> {}]
NoError == [type |-> "", msg |-> "", names |-> {}]

\* a marker loop that records the implementation but leaves its target among
\* the members still to be implemented
ConsumeMarkerKeepSpec(T, st, self, target, i) ==
  IF st.err # NoError THEN st
  ELSE IF ~HasDeclaringInterface(T, target) THEN [st EXCEPT !.err = NoDeclaringInterface]
  ELSE IF target \notin st.specs THEN [st EXCEPT !.err = UnknownTarget(ImplNames[i], target.name)]
  ELSE LET declaring_interface == target.owner
           st1 == IF declaring_interface \in DOMAIN st.reg THEN st
                  ELSE FreshEntry(st, declaring_interface)
       IN [Write(st1, declaring_interface, target, implements(target, self, ImplNames[i])) EXCEPT
             !.specs = st.specs,
             !.mo = SelectSeq(st.mo, LAMBDA f : f # target)]

\* lines 59-83 for the marked method at position i of the body;
\* st = [specs, reg, mo, ref, tab, err]
ConsumeMarker(T, st, self, target, i) ==
  IF st.err # NoError THEN st
  ELSE IF ~HasDeclaringInterface(T, target) THEN [st EXCEPT !.err = NoDeclaringInterface]
  ELSE IF target \notin st.specs THEN [st EXCEPT !.err = UnknownTarget(ImplNames[i], target.name)]
  ELSE LET declaring_interface == target.owner
           st1 == IF declaring_interface \in DOMAIN st.reg THEN st
                  ELSE FreshEntry(st, declaring_interface)
       IN [Write(st1, declaring_interface, target, implements(target, self, ImplNames[i])) EXCEPT
             !.specs = st.specs \ {target},
             !.mo = SelectSeq(st.mo, LAMBDA f : f # target)]

RECURSIVE ConsumeMarkers(_, _, _, _, _)
ConsumeMarkers(T, st, self, markers, i) ==
  IF i > Len(markers) THEN st
  ELSE ConsumeMarkers(T, ConsumeMarker(T, st, self, markers[i], i), self, markers, i + 1)

\* lines 89-90: the namespace the type is created from: the marked methods
\* are deleted, the abstract and the ordinary ones stay
Namespace(self, decl, plain) ==
  [nm \in decl \cup plain |-> IF nm \in decl THEN AbstractFn(self, nm) ELSE PlainFn(self, nm)]

\* a type that publishes no abstract name at all (the fallback of line 106)
AbstractMethodsNone(specs) == {}

\* line 104: the names published to the host as __abstractmethods__
AbstractMethods(specs) == {f.name : f \in specs}

\* InterfaceMeta.__new__ as a whole: [ok, err, type, reg, table]; reg is the
\* local inherited_implementations when __new__ returns or raises, table the
\* existing types as the call leaves them
New(T, bases, decl, plain, markers, concrete) ==
  LET self == Len(T) + 1
      defined == {AbstractFn(self, nm) : nm \in decl}
      merged == MergeBases(T, [reg |-> EmptyMap, mo |-> <<>>, ref |-> EmptyMap, tab |-> T], bases, 1)
      st == ConsumeMarkers(T, [specs |-> InheritedSpecifications(T, bases, defined),
                               reg |-> merged.reg, mo |-> merged.mo, ref |-> merged.ref,
                               tab |-> merged.tab, err |-> NoError],
                           self, markers, 1)
      mro == MroOf(T, self, bases)
      raise(e) == [ok |-> FALSE, err |-> e, type |-> InterfaceType, reg |-> st.reg, table |-> st.tab]
  IN IF st.err # NoError THEN raise(st.err)
     ELSE IF st.mo # <<>> THEN raise(ConflictingOverride(st.mo))
     ELSE IF mro = <<>> THEN raise(MroError)
     ELSE IF concrete /\ st.specs # {} THEN raise(IncompleteConcrete(st.specs))
     ELSE [ok |-> TRUE, err |-> NoError, reg |-> st.reg, table |-> st.tab,
           type |-> [bases |-> bases, mro |-> mro, ns |-> Namespace(self, decl, plain),
                     specs |-> st.specs, impls |-> st.reg,
                     abstractmethods |-> AbstractMethods(st.specs)]]

(* ------------------------- attribute lookup --------------------------- *)
\* the first type of the mro of t whose namespace holds `name`; 0 if none
RECURSIVE Definer(_, _, _, _)
Definer(T, mro, name, i) ==
  IF i > Len(mro) THEN 0
  ELSE IF name \in DOMAIN T[mro[i]].ns THEN mro[i]
  ELSE Definer(T, mro, name, i + 1)

hasattr(T, t, name) == Definer(T, T[t].mro, name, 1) # 0

\* getattr(t, name) on the type t (only used where hasattr holds)
getattr(T, t, name) == T[Definer(T, T[t].mro, name, 1)].ns[name]

AttributeError == [type |-> "AttributeError", msg |-> "has no attribute", names |-> {}]

\* a value a lookup returns: the function found, bound to `self`
Bound(f, self) == [ok |-> TRUE, err |-> NoError, fn |-> f, self |-> self]
Raised(e) == [ok |-> FALSE, err |-> e, fn |-> PlainFn(0, ""), self |-> <<>>]

\* getattr(instance, name) for an instance of t
InstanceGetattr(T, t, name) ==
  IF hasattr(T, t, name) THEN Bound(getattr(T, t, name), <<"instance", t>>)
  ELSE Raised(AttributeError)

(* ------------------- InterfaceMeta.as_interface_type ------------------ *)
ExpectedInterface == [type |-> "TypeError", msg |-> "Expected an interface type", names |-> {}]
\* line 115: the class is no subclass of the interface
InterfaceMismatch == [type |-> "TypeError", msg |-> "does not implement interface", names |-> {}]
\* line 121: the registry of the class has no entry for the interface
UnimplementedInterface == [type |-> "TypeError", msg |-> "does not implement interface", names |-> {}]
MissingExplicitImplementation(name) ==
  [type |-> "TypeError", msg |-> "does not provide an explicit implementation for method of interface",
   names |-> {name}]

\* a cast that does not ask whether the class is a subclass of the interface
as_interface_type_unchecked(T, cls, interface) ==
  IF ~IsInterface(T, interface) THEN [kind |-> "error", err |-> ExpectedInterface, line |-> 112]
  ELSE IF T[interface].specs = {} THEN [kind |-> "instance", err |-> NoError, line |-> 118]
  ELSE IF interface \notin DOMAIN T[cls].impls THEN [kind |-> "error", err |-> UnimplementedInterface, line |-> 121]
  ELSE [kind |-> "view", err |-> NoError, line |-> 143]

\* lines 110-143: what the cast of an instance of cls to `interface` gives:
\* an error, the instance itself, or a view; `line` is the line that decided
as_interface_type(T, cls, interface) ==
  IF ~IsInterface(T, interface) THEN [kind |-> "error", err |-> ExpectedInterface, line |-> 112]
  ELSE IF ~issubclass(T, cls, interface) THEN [kind |-> "error", err |-> InterfaceMismatch, line |-> 115]
  ELSE IF T[interface].specs = {} THEN [kind |-> "instance", err |-> NoError, line |-> 118]
  ELSE IF interface \notin DOMAIN T[cls].impls THEN [kind |-> "error", err |-> UnimplementedInterface, line |-> 121]
  ELSE [kind |-> "view", err |-> NoError, line |-> 143]

\* a view that resolves an abstract member by its name alone, in whichever
\* interface of the registry has an implementation for a member of that name
ViewGetattrByName(T, cls, interface, name) ==
  IF ~hasattr(T, interface, name) THEN Raised(AttributeError)
  ELSE LET specification == getattr(T, interface, name)
           named == {f \in UNION {Range(T[cls].impls[i]) : i \in DOMAIN T[cls].impls} : f.for[2] = name}
       IN IF HasDeclaringInterface(T, specification)
          THEN IF named # {}
               THEN Bound(CHOOSE f \in named : \A g \in named : g.for[1] <= f.for[1], <<"instance", cls>>)
               ELSE Raised(MissingExplicitImplementation(name))
          ELSE InstanceGetattr(T, cls, name)

\* a view that looks an abstract member up in the mapping of the interface
\* that declares it, not in the mapping of the interface of the cast
ViewGetattrDeclaring(T, cls, interface, name) ==
  IF ~hasattr(T, interface, name) THEN Raised(AttributeError)
  ELSE LET specification == getattr(T, interface, name)
       IN IF HasDeclaringInterface(T, specification)
          THEN IF specification.owner \in DOMAIN T[cls].impls
                  /\ specification \in DOMAIN T[cls].impls[specification.owner]
               THEN Bound(T[cls].impls[specification.owner][specification], <<"instance", cls>>)
               ELSE Raised(MissingExplicitImplementation(name))
          ELSE InstanceGetattr(T, cls, name)

\* a view that answers a member that is not abstract with the function the
\* interface itself defines, not with what the instance has
ViewGetattrDefault(T, cls, interface, name) ==
  IF ~hasattr(T, interface, name) THEN Raised(AttributeError)
  ELSE LET specification == getattr(T, interface, name)
           implementation_mapping == T[cls].impls[interface]
       IN IF HasDeclaringInterface(T, specification)
          THEN IF specification \in DOMAIN implementation_mapping
               THEN Bound(implementation_mapping[specification], <<"instance", cls>>)
               ELSE Raised(MissingExplicitImplementation(name))
          ELSE Bound(specification, <<"instance", cls>>)

\* lines 129-141: ExplicitImplementation.__getattr__ of the view of an
\* instance of cls as `interface`
ViewGetattr(T, cls, interface, name) ==
  IF ~hasattr(T, interface, name) THEN Raised(AttributeError)
  ELSE LET specification == getattr(T, interface, name)
           implementation_mapping == T[cls].impls[interface]
       IN IF HasDeclaringInterface(T, specification)
          THEN IF specification \in DOMAIN implementation_mapping
               THEN Bound(implementation_mapping[specification], <<"instance", cls>>)
               ELSE Raised(MissingExplicitImplementation(name))
          ELSE InstanceGetattr(T, cls, name)

(* ------------------------------ actions ------------------------------- *)
\* every function object a marker can name: a member of a type that exists,
\* or a method of the body being written
Targets(T, decl, plain) ==
  UNION {Range(T[t].ns) : t \in 1..Len(T)} \cup Range(Namespace(Len(T) + 1, decl, plain))

SeqsUpTo(S, n) == UNION {[1..k -> S] : k \in 0..n}

\* the marked methods of a body, up to the first one at which __new__ raises
\* (the loop of lines 59-83 never looks at the methods after it): methods that
\* implement distinct members the bases leave open, then at most one more
\* method with any target at all
Bodies(T, bases, decl, plain) ==
  LET open == InheritedSpecifications(T, bases, {})
      good == {s \in SeqsUpTo(open, MaxMarkers) : \A i, j \in 1..Len(s) : i # j => s[i] # s[j]}
  IN good \cup {Append(s, t) : s \in {g \in good : Len(g) < MaxMarkers}, t \in Targets(T, decl, plain)}

\* names a caller may ask a view or an instance for
AccessNames == Names \cup {"as_interface"}

\* one class statement: its bases, the names its body declares abstract, the
\* ordinary methods it defines, the targets of its marked methods in body
\* order, and the concrete keyword
Stmt(bases, decl, plain, markers, concrete) ==
  [bases |-> bases, decl |-> decl, plain |-> plain, markers |-> markers, concrete |-> concrete]

\* the table after the class statements stmts[i..] have run, one by one
RECURSIVE Build(_, _, _)
Build(T, stmts, i) ==
  IF i > Len(stmts) THEN T
  ELSE LET c == stmts[i]
           r == New(T, c.bases, c.decl, c.plain, c.markers, c.concrete)
       IN Build(IF r.ok THEN Append(r.table, r.type) ELSE r.table, stmts, i + 1)

\* programs whose interfaces and first classes already exist (types 2, 3, 4)
\* IFoo {abstract m, default n}, IBar {abstract m, abstract n}, A(IFoo)
\* implements IFoo.m and overrides the default n
LibNames ==
  <<Stmt(<<Interface>>, {"m"}, {"n"}, <<>>, FALSE),
    Stmt(<<Interface>>, {"m", "n"}, {}, <<>>, FALSE),
    Stmt(<<2>>, {}, {"n"}, <<AbstractFn(2, "m")>>, FALSE)>>
\* IBase {m}, ILeft(IBase) {n}, IRight(IBase) {n}
LibDiamond ==
  <<Stmt(<<Interface>>, {"m"}, {}, <<>>, FALSE),
    Stmt(<<2>>, {"n"}, {}, <<>>, FALSE),
    Stmt(<<2>>, {"n"}, {}, <<>>, FALSE)>>
\* IFoo {m}, A(IFoo) and B(IFoo) both implement IFoo.m
LibTwoImpls ==
  <<Stmt(<<Interface>>, {"m"}, {}, <<>>, FALSE),
    Stmt(<<2>>, {}, {}, <<AbstractFn(2, "m")>>, FALSE),
    Stmt(<<2>>, {}, {}, <<AbstractFn(2, "m")>>, TRUE)>>
\* IFoo {m}, A(IFoo) implements IFoo.m, P(IFoo) implements nothing
LibPartial ==
  <<Stmt(<<Interface>>, {"m"}, {}, <<>>, FALSE),
    Stmt(<<2>>, {}, {}, <<AbstractFn(2, "m")>>, FALSE),
    Stmt(<<2>>, {}, {"n"}, <<>>, FALSE)>>
\* IFooBar {m, n}, P(IFooBar) implements m only, Q(IFooBar) implements n only
LibHalves ==
  <<Stmt(<<Interface>>, {"m", "n"}, {}, <<>>, FALSE),
    Stmt(<<2>>, {}, {}, <<AbstractFn(2, "m")>>, FALSE),
    Stmt(<<2>>, {}, {}, <<AbstractFn(2, "n")>>, FALSE)>>

Libraries == {LibNames, LibDiamond, LibTwoImpls, LibPartial, LibHalves}

\* whether the last operation raised: an uncaught exception ends the program
Raising ==
  \/ last.op \in {"new", "instantiate"} /\ ~last.ok
  \/ last.op = "cast" /\ last.cast.kind = "error"
  \/ last.op = "getattr" /\ ~last.res.ok

Init ==
  /\ \E lib \in Libraries : types = Build(<<InterfaceType>>, lib, 1)
  /\ last = [op |-> "init"]

\* a further class statement can run
CanDefine == ~Raising /\ Len(types) < MaxTypes

\* a class statement with metaclass InterfaceMeta (interface.py 13-108)
Define(bases, decl, plain, markers, concrete) ==
  /\ CanDefine
  /\ LET r == New(types, bases, decl, plain, markers, concrete)
     IN /\ types' = IF r.ok THEN Append(r.table, r.type) ELSE r.table
        /\ last' = [op |-> "new", cls |-> Len(types) + 1, bases |-> bases, decl |-> decl, plain |-> plain,
                    markers |-> markers, concrete |-> concrete, ok |-> r.ok, err |-> r.err,
                    reg |-> r.reg]

\* the host's refusal to instantiate a type whose __abstractmethods__ is not empty
Instantiate(t) ==
  /\ ~Raising
  /\ last' = [op |-> "instantiate", t |-> t, ok |-> types[t].abstractmethods = {}]
  /\ UNCHANGED types

\* Interface.as_interface (interface.py 147-148) on an instance of t
Cast(t, x) ==
  /\ ~Raising
  /\ types[t].abstractmethods = {}
  /\ last' = [op |-> "cast", t |-> t, x |-> x, cast |-> as_interface_type(types, t, x)]
  /\ UNCHANGED types

\* an attribute of what the last cast returned
Access(name) ==
  /\ ~Raising
  /\ last.op \in {"cast", "getattr"}
  /\ last' = [op |-> "getattr", t |-> last.t, x |-> last.x, cast |-> last.cast, name |-> name,
              res |-> IF last.cast.kind = "view" THEN ViewGetattr(types, last.t, last.x, name)
                      ELSE InstanceGetattr(types, last.t, name)]
  /\ UNCHANGED types

Next ==
  \/ /\ CanDefine
     /\ \E bases \in SeqsUpTo(1..Len(types), MaxBases) \ {<<>>}, decl \in SUBSET Names, concrete \in BOOLEAN :
          \E plain \in SUBSET (Names \ decl) :
            \E markers \in Bodies(types, bases, decl, plain) :
              Define(bases, decl, plain, markers, concrete)
  \/ /\ ~Raising
     /\ \E t \in 1..Len(types) : Instantiate(t)
  \/ \E t \in 1..Len(types), x \in 0..Len(types) : Cast(t, x)
  \/ \E name \in AccessNames : Access(name)

Spec == Init /\ [][Next]_vars

(* ------------------------------ claims -------------------------------- *)
\* type t declares the abstract member nm in its own body
Declares(t, nm) == nm \in DOMAIN types[t].ns /\ types[t].ns[nm].kind = "abstract"

\* the registry of t holds an implementation for the member d, under the
\* interface that declares d
Registered(t, d) ==
  d.owner \in DOMAIN types[t].impls /\ d \in DOMAIN types[t].impls[d.owner]

\* the last operation read `name` through a view (not through the instance)
ViewAccess == last.op = "getattr" /\ last.cast.kind = "view"

\* C1: when T implements two interfaces X and Y that each declare an abstract
\* member named m, the view of an instance of T as X resolves m to the method T
\* registered with implements(X.m), bound to the instance, and never to the
\* one registered with implements(Y.m); the same with X and Y exchanged.
C1_ViewResolvesOwnInterface ==
  ViewAccess =>
    \A y \in 1..Len(types) :
      ( /\ y # last.x
        /\ y \in Range(types[last.t].mro)
        /\ Declares(last.x, last.name)
        /\ Declares(y, last.name)
        /\ Registered(last.t, AbstractFn(y, last.name)) )
      => /\ last.res.ok
         /\ last.res.fn.kind = "impl"
         /\ last.res.fn.for = <<last.x, last.name>>
         /\ last.res.self = <<"instance", last.t>>
         /\ last.res.fn # types[last.t].impls[y][AbstractFn(y, last.name)]

\* C1 witness: a type created by the last class statements implements the
\* same-named members of two interfaces, and one was read through a view
C1_Witness ==
  /\ ViewAccess
  /\ last.res.ok
  /\ last.res.fn.owner = last.t
  /\ \E y \in 1..Len(types) :
       /\ y # last.x
       /\ y \in Range(types[last.t].mro)
       /\ Declares(last.x, last.name)
       /\ Declares(y, last.name)
       /\ Registered(last.t, AbstractFn(y, last.name))
       /\ types[last.t].impls[y][AbstractFn(y, last.name)].owner = last.t

\* c(l, r) is a diamond over b for the member m: l and r both extend b, which
\* declares m; l and r leave m abstract under that name; c implements m in
\* its own body
Diamond(c, b, l, r, m) ==
  /\ types[c].bases = <<l, r>>
  /\ l # r
  /\ b \in Range(types[l].bases)
  /\ b \in Range(types[r].bases)
  /\ Declares(b, m)
  /\ AbstractFn(b, m) \in types[l].specs \cap types[r].specs
  /\ getattr(types, l, m) = AbstractFn(b, m)
  /\ getattr(types, r, m) = AbstractFn(b, m)
  /\ Registered(c, AbstractFn(b, m))
  /\ types[c].impls[b][AbstractFn(b, m)].owner = c

\* C2: in a diamond IBase <- ILeft, IRight <- C where C implements m once with
\* implements(IBase.m): the casts of C to IBase, ILeft and IRight all succeed;
\* m through the IBase view is that implementation; m through the ILeft or
\* the IRight view raises the missing-explicit-implementation error; the
\* members ILeft and IRight declare themselves resolve through their own views
C2_DiamondResolution ==
  last.op \in {"cast", "getattr"} =>
    \A b, l, r \in 1..Len(types) : \A m \in Names :
      Diamond(last.t, b, l, r, m) =>
        /\ last.x \in {b, l, r} => last.cast.kind = "view"
        /\ (ViewAccess /\ last.name = m /\ last.x = b) =>
             /\ last.res.ok
             /\ last.res.fn = types[last.t].impls[b][AbstractFn(b, m)]
             /\ last.res.fn.for = <<b, m>>
             /\ last.res.self = <<"instance", last.t>>
        /\ (ViewAccess /\ last.name = m /\ last.x \in {l, r}) =>
             /\ ~last.res.ok
             /\ last.res.err = MissingExplicitImplementation(m)
        /\ (ViewAccess /\ last.x \in {l, r} /\ Declares(last.x, last.name)) =>
             /\ last.res.ok
             /\ last.res.fn.for = <<last.x, last.name>>
             /\ last.res.self = <<"instance", last.t>>

\* C2 witness: m was asked of the ILeft view of a diamond whose two branches
\* each declare a member of their own, and the access raised
C2_Witness ==
  /\ ViewAccess
  /\ ~last.res.ok
  /\ \E b, l, r \in 1..Len(types) : \E m \in Names :
       /\ Diamond(last.t, b, l, r, m)
       /\ last.x = l
       /\ last.name = m
       /\ \E k \in Names : Declares(l, k)
       /\ \E k \in Names : Declares(r, k)

\* the abstract members a class statement with these bases and this body has
\* to account for: those any ancestor declares, and those the body declares
RequiredIdentities(cls, bases, decl) ==
  ({AbstractFn(a, nm) : a \in UNION {Range(types[bases[i]].mro) : i \in 1..Len(bases)}, nm \in Names}
     \cap UNION {Range(types[a].ns) : a \in 1..Len(types)})
  \cup {AbstractFn(cls, nm) : nm \in decl}

\* the registry the last class statement built (inherited_implementations
\* when __new__ returned or raised) holds an implementation of d under the
\* interface that declares d
Supplied(d) == d.owner \in DOMAIN last.reg /\ d \in DOMAIN last.reg[d.owner]

\* the last class statement ran into no error, or only into the concrete check
OnlyConcreteCheck == last.ok \/ last.err.msg = IncompleteConcrete({}).msg

\* C3: a class statement with concrete=True succeeds if and only if every
\* abstract member it inherits or declares has an implementation registered
\* under the interface that declares it, in the registry built for the type
C3_ConcreteIffComplete ==
  (last.op = "new" /\ last.concrete /\ OnlyConcreteCheck) =>
    (last.ok <=> \A d \in RequiredIdentities(last.cls, last.bases, last.decl) : Supplied(d))

\* two bases carry different implementations of the member d
Collision(bases, d) ==
  \E i, j \in 1..Len(bases) :
    /\ Registered(bases[i], d)
    /\ Registered(bases[j], d)
    /\ types[bases[i]].impls[d.owner][d] # types[bases[j]].impls[d.owner][d]

\* the abstract members declared by the types that exist
Identities == {f \in UNION {Range(types[t].ns) : t \in 1..Len(types)} : f.kind = "abstract"}

\* a marked method of the last class statement made __new__ raise
MarkerRaised == ~last.ok /\ last.err.msg \in {UnknownTarget("", "").msg, NoDeclaringInterface.msg}

\* C4: when two bases of a new type carry different implementations of the same
\* abstract member and the body does not implement that member again, the class
\* statement fails with the conflicting-override error
C4_CollisionRejected ==
  last.op = "new" =>
    \A d \in Identities :
      (Collision(last.bases, d) /\ d \notin Range(last.markers) /\ ~MarkerRaised)
      => ~last.ok /\ last.err.msg = ConflictingOverride(<<>>).msg

\* C5: when two bases of a new type carry different implementations of the same
\* abstract member and the body marks a method implements(that member), the
\* class statement succeeds and the registry maps the member to the new method
C5_CollisionResolved ==
  last.op = "new" =>
    \A d \in Identities :
      (Collision(last.bases, d) /\ d \in Range(last.markers))
      => /\ last.ok
         /\ Registered(last.cls, d)
         /\ types[last.cls].impls[d.owner][d].owner = last.cls

\* the marked methods of the last body whose target is not, when the loop
\* reaches them, among the members the bases leave open and no earlier marked
\* method of the body has taken
BadMarkers ==
  {j \in DOMAIN last.markers :
     last.markers[j] \notin InheritedSpecifications(types, last.bases, {}) \ {last.markers[i] : i \in 1..(j - 1)}}

\* the positions i < j of two marked methods of the last body that name the
\* same member, one the bases leave open
DuplicateMarkers ==
  {p \in (DOMAIN last.markers) \X (DOMAIN last.markers) :
     /\ p[1] < p[2]
     /\ last.markers[p[1]] = last.markers[p[2]]
     /\ last.markers[p[1]] \in InheritedSpecifications(types, last.bases, {})}

\* the last class statement raised and left the table of types as it was
NoTypeProduced == ~last.ok /\ Len(types) = last.cls - 1

\* C6 as stated: when a body marks two methods implements(I.m) for the same
\* inherited abstract member, the class statement fails, no type is produced,
\* and the error names both marked methods
C6_DuplicateNamesBoth ==
  last.op = "new" =>
    \A p \in DuplicateMarkers :
      /\ NoTypeProduced
      /\ {ImplNames[p[1]], ImplNames[p[2]]} \subseteq last.err.names

\* C6 amended: when a body marks two methods implements(I.m) for the same
\* inherited abstract member, the class statement fails and no type is
\* produced; when the second of the two is the first marked method the loop
\* rejects, the error is the unknown-target TypeError naming that second
\* method and the member m, and it does not name the first method
C6_DuplicateRejected ==
  last.op = "new" =>
    \A p \in DuplicateMarkers :
      /\ NoTypeProduced
      /\ Min(BadMarkers) = p[2] =>
           /\ last.err = UnknownTarget(ImplNames[p[2]], last.markers[p[2]].name)
           /\ ImplNames[p[1]] \notin last.err.names

\* C6 witness: a class statement whose body implements the same inherited
\* member twice has run and raised
C6_Witness ==
  /\ last.op = "new"
  /\ DuplicateMarkers # {}
  /\ ~last.ok
  /\ Len(last.markers) >= 2

\* C7: a class statement without concrete=True is never rejected for the
\* members it leaves open; the names every type publishes as
\* __abstractmethods__ are exactly the names of its __explicit__specifications__;
\* and a type can be instantiated if and only if that set is empty
C7_AbstractNamesPublished ==
  /\ (last.op = "new" /\ ~last.concrete /\ BadMarkers = {}
        /\ MroOf(types, last.cls, last.bases) # <<>>) => last.ok
  /\ \A t \in 1..Len(types) : types[t].abstractmethods = {f.name : f \in types[t].specs}
  /\ last.op = "instantiate" => (last.ok <=> types[last.t].specs = {})

\* C7 witness: a type defined without concrete=True that implements one member
\* and leaves another open exists, and instantiating it was refused
C7_Witness ==
  /\ last.op = "instantiate"
  /\ ~last.ok
  /\ last.t = MaxTypes
  /\ types[last.t].specs # {}
  /\ \E d \in Identities : Registered(last.t, d) /\ types[last.t].impls[d.owner][d].owner = last.t

\* the cast of the last operation is to an interface the class does not inherit
CastToStranger ==
  /\ last.op = "cast"
  /\ IsInterface(types, last.x)
  /\ ~issubclass(types, last.t, last.x)

\* a cast gives the instance or a view only if X is an interface, T is a
\* subclass of X, and X leaves nothing open or the registry of T has an entry
\* for X; and no attribute is read from a cast that raised
CastSucceedsOnlyIf ==
  /\ (last.op = "cast" /\ last.cast.kind # "error") =>
       /\ IsInterface(types, last.x)
       /\ issubclass(types, last.t, last.x)
       /\ types[last.x].specs = {} \/ last.x \in DOMAIN types[last.t].impls
  /\ last.op = "getattr" => last.cast.kind # "error"

\* C8 as stated: a cast succeeds only under the three conditions, and the cast
\* to an interface T does not inherit fails at the cast itself with the
\* interface-mismatch error, an error distinct from the unimplemented-interface
\* error of a subclass whose registry has no entry
C8_MismatchDistinct ==
  /\ CastSucceedsOnlyIf
  /\ CastToStranger =>
       /\ last.cast.kind = "error"
       /\ last.cast.err = InterfaceMismatch
       /\ last.cast.err # UnimplementedInterface

\* C8 amended: a cast succeeds only under the three conditions, and the cast
\* to an interface T does not inherit fails at the cast itself, before any
\* attribute is read, with the TypeError "does not implement interface": the
\* same type and message as the error of a subclass whose registry has no entry
C8_CastGuards ==
  /\ CastSucceedsOnlyIf
  /\ CastToStranger =>
       /\ last.cast.kind = "error"
       /\ last.cast.err = InterfaceMismatch
       /\ last.cast.err.type = UnimplementedInterface.type
       /\ last.cast.err.msg = UnimplementedInterface.msg

\* C8 witness: an instance of a type that implements a member of one interface
\* was cast to an interface it does not inherit, one that declares a member
C8_Witness ==
  /\ CastToStranger
  /\ last.cast.kind = "error"
  /\ \E d \in Identities : Registered(last.t, d)
  /\ \E nm \in Names : Declares(last.x, nm)

\* the last operation read, through a view of X, a name X has that is not an
\* abstract member
PassThrough ==
  /\ ViewAccess
  /\ hasattr(types, last.x, last.name)
  /\ getattr(types, last.x, last.name).kind # "abstract"

C10_UnknownTargetRejected ==
  (last.op = "new" /\ BadMarkers # {}) =>
    /\ NoTypeProduced
    /\ last.err = UnknownTarget(ImplNames[Min(BadMarkers)], last.markers[Min(BadMarkers)].name)

\* the abstract members type t has to account for: those its own body
\* declares and those the bodies of its ancestors declare
RequiredOf(t) == {d \in Identities : d.owner \in Range(types[t].mro)}

\* C11: for every type of the table, the set of members it still leaves open
\* (__explicit__specifications__) is exactly its required members minus those
\* its registry implements under their declaring interface: no member is both
\* open and implemented, and no required member is neither
C11_OutstandingIsRequiredMinusImplemented ==
  \A t \in 1..Len(types) :
    types[t].specs = {d \in RequiredOf(t) : ~Registered(t, d)}

\* C12: for every type T of the table and every interface base B of T, each
\* member the registry of B implements under an interface X is also
\* implemented under X in the registry of T, whatever the order of the bases
\* and whether or not X is itself a base of T
C12_MergeLosesNothing ==
  \A t \in 1..Len(types) :
    \A i \in DOMAIN types[t].bases :
      LET b == types[t].bases[i]
      IN IsInterface(types, b) =>
           \A x \in DOMAIN types[b].impls :
             \A d \in DOMAIN types[b].impls[x] :
               /\ x \in DOMAIN types[t].impls
               /\ d \in DOMAIN types[t].impls[x]

\* C13: every step (a class statement that succeeds or raises, an
\* instantiation, a cast, an attribute read through a view) leaves every type
\* that exists in the table, with its registry and its set of open members,
\* exactly as it was
C13_FinalizedTypesUnchanged ==
  [][\A t \in 1..Len(types) :
       /\ t <= Len(types')
       /\ types'[t].impls = types[t].impls
       /\ types'[t].specs = types[t].specs]_vars

\* C13 witness: a class statement has run whose bases bring two registries
\* with implementations under one interface, so that the merge wrote twice
\* into the entry of that interface
C13_Witness ==
  /\ last.op = "new"
  /\ \E i, j \in DOMAIN last.bases : \E x \in 1..Len(types) :
       /\ i # j
       /\ x \in DOMAIN types[last.bases[i]].impls
       /\ x \in DOMAIN types[last.bases[j]].impls
       /\ types[last.bases[i]].impls[x] # EmptyMap
       /\ types[last.bases[j]].impls[x] # EmptyMap
       /\ types[last.bases[i]].impls[x] # types[last.bases[j]].impls[x]

====
